---- MODULE Spec2Model ----
(***************************************************************************)
(* Model of src/app.py: the ServiceDashboard class (load_data, merge_data, *)
(* the twelve calculate_* KPI calculators) over a small model of the       *)
(* pandas operations the code calls (merge, groupby/agg, boolean filters,  *)
(* mean, sum, the .str accessor).                                          *)
(*                                                                         *)
(* A cell value is a tagged record: a number, a string (a sequence of      *)
(* one-character strings), a timestamp, or the missing value NaN.  A       *)
(* DataFrame is a record of its column set, the columns of object dtype    *)
(* and the sequence of its rows; None is the DataFrame record with         *)
(* none = TRUE.                                                            *)
(***************************************************************************)
EXTENDS Integers, Sequences, FiniteSets, TLC

VARIABLES appointments_df, items_sold_df, opportunities_df, job_times_df,
          merged_df, now, last, pc

vars == <<appointments_df, items_sold_df, opportunities_df, job_times_df,
          merged_df, now, last, pc>>

\* pc is the position of main in its current run, with what the run has
\* done so far: the technician selected, the values load_data and
\* merge_data returned and the calculators called.  OutsideMain is its
\* value while the dashboard is used directly, through its methods.
OutsideMain == [at |-> "outside"]

(***************************************************************************)
(* Bounds of the model.                                                    *)
(***************************************************************************)
MaxBaseRows == 2
MaxJobTimeRows == 2
MaxOppRows == 1
MaxItemRows == 3

(***************************************************************************)
(* Cell values.                                                            *)
(***************************************************************************)
NaN == [t |-> "nan", v |-> 0]
Num(n) == [t |-> "num", v |-> n]
Str(s) == [t |-> "str", v |-> s]
Date(d) == [t |-> "date", v |-> d]
PyNone == [t |-> "none", v |-> 0]

notna(x) == x.t # "nan"

\* Python truthiness of the `technician` argument (None and '' are falsy).
Truthy(x) == /\ x.t # "none"
             /\ x.t = "str" => x.v # <<>>
             /\ x.t = "num" => x.v # 0

(***************************************************************************)
(* Characters: order and case folding of the characters the model uses.    *)
(***************************************************************************)
ASCII == <<" ", "%", ",", "-", ".", "0", "1", "2", "3", "4", "5", "6", "7",
           "8", "9", "@", "A", "B", "C", "D", "E", "F", "G", "H", "I", "J",
           "K", "L", "M", "N", "O", "P", "Q", "R", "S", "T", "U", "V", "W",
           "X", "Y", "Z", "_", "a", "b", "c", "d", "e", "f", "g", "h", "i",
           "j", "k", "l", "m", "n", "o", "p", "q", "r", "s", "t", "u", "v",
           "w", "x", "y", "z">>

Chars == {ASCII[i] : i \in 1..Len(ASCII)}

\* The position of each character in ASCII, and its lower-case form:
\* 'A'..'Z' sit at 17..42 of ASCII and 'a'..'z' at 44..69.
OrdOf == [c \in Chars |-> CHOOSE i \in 1..Len(ASCII) : ASCII[i] = c]

LowerOf == [c \in Chars |-> IF OrdOf[c] >= 17 /\ OrdOf[c] <= 42 THEN ASCII[OrdOf[c] + 27] ELSE c]

Ord(c) == OrdOf[c]

lower(c) == LowerOf[c]

casefold(s) == [i \in 1..Len(s) |-> lower(s[i])]

RECURSIVE StrLess(_, _)
StrLess(a, b) ==
    IF a = <<>> THEN b # <<>>
    ELSE IF b = <<>> THEN FALSE
    ELSE IF a[1] # b[1] THEN Ord(a[1]) < Ord(b[1])
    ELSE StrLess(Tail(a), Tail(b))

\* Order of group keys: numbers by value, strings lexicographically.
ValLess(x, y) ==
    IF x.t = "str" /\ y.t = "str" THEN StrLess(x.v, y.v)
    ELSE IF x.t = y.t THEN x.v < y.v
    ELSE x.t = "num"

(***************************************************************************)
(* DataFrames.                                                             *)
(***************************************************************************)
NoneDF == [none |-> TRUE, cols |-> {}, obj |-> {}, rows |-> <<>>]

DataFrame(cols, obj, rows) ==
    [none |-> FALSE, cols |-> cols, obj |-> obj, rows |-> rows]

\* pd.read_excel: a column holding text (or no cell at all) has object dtype.
read_excel(cols, rows) ==
    DataFrame(cols,
              {c \in cols : rows = <<>> \/ \E i \in 1..Len(rows) : rows[i][c].t = "str"},
              rows)

RECURSIVE Flatten(_)
Flatten(ss) == IF ss = <<>> THEN <<>> ELSE Head(ss) \o Flatten(Tail(ss))

Ok(df) == [raised |-> FALSE, df |-> df]
Raise == [raised |-> TRUE, df |-> NoneDF]

(***************************************************************************)
(* pd.merge(left, right, on=[on], how='left', suffixes=(lsuffix, rsuffix)) *)
(* Every left row is kept, in order; a left row with k > 0 matching right  *)
(* rows yields k rows (in right order), one with no match yields one row   *)
(* whose right columns are NaN.  Missing keys match each other.  A non-key *)
(* column present on both sides is renamed with the side's suffix; pandas  *)
(* raises MergeError when the renaming produces a duplicate column.        *)
(***************************************************************************)
pd_merge(left, right, on, lsuffix, rsuffix) ==
    LET overlap == (left.cols \cap right.cols) \ {on}
        lname(c) == IF c \in overlap THEN c \o lsuffix ELSE c
        rname(c) == IF c \in overlap THEN c \o rsuffix ELSE c
        rrest == right.cols \ {on}
        lcols == {lname(c) : c \in left.cols}
        rcols == {rname(c) : c \in rrest}
        clash == \/ Cardinality(lcols) # Cardinality(left.cols)
                 \/ Cardinality(rcols) # Cardinality(rrest)
                 \/ lcols \cap rcols # {}
        lsrc(c) == CHOOSE x \in left.cols : lname(x) = c
        rsrc(c) == CHOOSE x \in rrest : rname(x) = c
        joined(l, r) == [c \in lcols \cup rcols |->
                            IF c \in lcols THEN l[lsrc(c)] ELSE r[rsrc(c)]]
        unmatched(l) == [c \in lcols \cup rcols |->
                            IF c \in lcols THEN l[lsrc(c)] ELSE NaN]
        matches(l) == SelectSeq(right.rows, LAMBDA r : r[on] = l[on])
        rowsFor(l) == IF matches(l) = <<>>
                      THEN <<unmatched(l)>>
                      ELSE [k \in 1..Len(matches(l)) |-> joined(l, matches(l)[k])]
    IN  IF clash THEN Raise
        ELSE Ok(DataFrame(lcols \cup rcols,
                          {lname(c) : c \in left.obj} \cup {rname(c) : c \in right.obj \cap rrest},
                          Flatten([i \in 1..Len(left.rows) |-> rowsFor(left.rows[i])])))

(***************************************************************************)
(* The items-sold aggregation of merge_data:                               *)
(*   groupby('Customer Email').agg({'Price': 'sum', 'Quantity': 'sum',     *)
(*        'Line Item': lambda x: ', '.join(x.unique())}).reset_index()     *)
(* followed by the renaming of the four columns.  Rows with a missing key  *)
(* form no group; groups come in key order.  agg raises KeyError when one  *)
(* of the three columns does not exist and join raises TypeError on a      *)
(* label that is not a string.  Price and Quantity hold numbers or NaN.    *)
(***************************************************************************)
\* unique without the removal of repeated labels.
unique_keep_repeats(s) == s

RECURSIVE unique(_)
unique(s) ==
    IF s = <<>> THEN <<>>
    ELSE LET init == unique(SubSeq(s, 1, Len(s) - 1))
             x == s[Len(s)]
         IN  IF \E i \in 1..Len(init) : init[i] = x THEN init ELSE Append(init, x)

\* sep.join(parts) for strings as character sequences.
RECURSIVE join(_, _)
join(sep, parts) ==
    IF parts = <<>> THEN <<>>
    ELSE IF Len(parts) = 1 THEN parts[1]
    ELSE parts[1] \o sep \o join(sep, Tail(parts))

\* Series.sum(): missing values are skipped, the empty sum is 0.
RECURSIVE sum(_)
sum(s) ==
    IF s = <<>> THEN 0
    ELSE (IF Head(s).t = "num" THEN Head(s).v ELSE 0) + sum(Tail(s))

column(rows, c) == [i \in 1..Len(rows) |-> rows[i][c]]

RECURSIVE SortedKeys(_)
SortedKeys(K) ==
    IF K = {} THEN <<>>
    ELSE LET m == CHOOSE x \in K : \A y \in K \ {x} : ValLess(x, y)
         IN  <<m>> \o SortedKeys(K \ {m})

items_agg(items_sold) ==
    LET rows == items_sold.rows
        keys == SortedKeys({rows[i]["Customer Email"] : i \in 1..Len(rows)} \ {NaN})
        group(k) == SelectSeq(rows, LAMBDA r : r["Customer Email"] = k)
        labels(k) == unique(column(group(k), "Line Item"))
        aggRow(k) == [c \in {"Customer Email", "Total_Items_Price", "Total_Items_Qty", "Items_Sold"} |->
                        CASE c = "Customer Email" -> k
                          [] c = "Total_Items_Price" -> Num(sum(column(group(k), "Price")))
                          [] c = "Total_Items_Qty" -> Num(sum(column(group(k), "Quantity")))
                          [] c = "Items_Sold" ->
                                Str(join(<<",", " ">>, [i \in 1..Len(labels(k)) |-> labels(k)[i].v]))]
    IN  IF ~ ({"Price", "Quantity", "Line Item"} \subseteq items_sold.cols) THEN Raise
        ELSE IF \E i \in 1..Len(rows) :
                    /\ rows[i]["Customer Email"] # NaN
                    /\ rows[i]["Line Item"].t # "str" THEN Raise
        ELSE Ok(DataFrame({"Customer Email", "Total_Items_Price", "Total_Items_Qty", "Items_Sold"},
                          {"Items_Sold"} \cup ({"Customer Email"} \cap items_sold.obj),
                          [i \in 1..Len(keys) |-> aggRow(keys[i])]))

(***************************************************************************)
(* ServiceDashboard.merge_data                                             *)
(***************************************************************************)
job_merge_cols(merged, job_times) ==
    IF "Job" \in merged.cols /\ "Job" \in job_times.cols THEN <<"Job">>
    ELSE IF "Job ID" \in merged.cols /\ "Job ID" \in job_times.cols THEN <<"Job ID">>
    ELSE <<>>

opp_merge_cols(merged, opportunities) ==
    IF "Job" \in merged.cols /\ "Job" \in opportunities.cols THEN <<"Job">>
    ELSE <<>>

\* The try block of merge_data when the appointments table is present: the
\* three optional joins in order, with the locals the code computes.
merge_steps(appointments, items_sold, opportunities, job_times) ==
    LET jkey == IF job_times.none THEN <<>> ELSE job_merge_cols(appointments, job_times)
        r1 == IF jkey # <<>>
              THEN pd_merge(appointments, job_times, jkey[1], "", "_job")
              ELSE Ok(appointments)
        okey == IF r1.raised \/ opportunities.none THEN <<>>
                ELSE opp_merge_cols(r1.df, opportunities)
        r2 == IF r1.raised THEN Raise
              ELSE IF okey # <<>>
              THEN pd_merge(r1.df, opportunities, okey[1], "", "_opp")
              ELSE r1
        doItems == /\ ~ r2.raised
                   /\ ~ items_sold.none
                   /\ "Customer Email" \in r2.df.cols
                   /\ "Customer Email" \in items_sold.cols
        agg == IF doItems THEN items_agg(items_sold) ELSE Ok(NoneDF)
        r3 == IF r2.raised \/ agg.raised THEN Raise
              ELSE IF doItems
              THEN pd_merge(r2.df, agg.df, "Customer Email", "_x", "_y")
              ELSE r2
    IN  [raised |-> r3.raised, df |-> r3.df, job_merge_cols |-> jkey,
         opp_merge_cols |-> okey, before_opp |-> r1.df, before_items |-> r2.df,
         items_agg |-> agg.df]

\* merge_data_result without the test for a missing appointments table:
\* None.copy() raises and the call ends in the except branch.
merge_data_result_unguarded(appointments, items_sold, opportunities, job_times, merged) ==
    LET s == merge_steps(appointments, items_sold, opportunities, job_times)
    IN  IF appointments.none \/ s.raised
        THEN [op |-> "merge_data", ok |-> FALSE, error |-> "Error merging data",
              merged_df |-> merged, steps |-> IF appointments.none THEN <<>> ELSE s]
        ELSE [op |-> "merge_data", ok |-> TRUE, error |-> "",
              merged_df |-> s.df, steps |-> s]

\* The outcome of one call: the return value, the message passed to
\* st.error, the value of self.merged_df after the call, and the locals.
merge_data_result(appointments, items_sold, opportunities, job_times, merged) ==
    IF ~ appointments.none
    THEN LET s == merge_steps(appointments, items_sold, opportunities, job_times)
         IN  IF s.raised
             THEN [op |-> "merge_data", ok |-> FALSE, error |-> "Error merging data",
                   merged_df |-> merged, steps |-> s]
             ELSE [op |-> "merge_data", ok |-> TRUE, error |-> "",
                   merged_df |-> s.df, steps |-> s]
    ELSE [op |-> "merge_data", ok |-> FALSE, error |-> "No appointments data found",
          merged_df |-> merged, steps |-> <<>>]

merge_data ==
    LET r == merge_data_result(appointments_df, items_sold_df, opportunities_df,
                               job_times_df, merged_df)
    IN  /\ merged_df' = r.merged_df
        /\ last' = [r EXCEPT !.merged_df = merged_df]
        /\ UNCHANGED <<appointments_df, items_sold_df, opportunities_df, job_times_df, now, pc>>

(***************************************************************************)
(* Values returned by the calculators: a number (a normalised fraction     *)
(* n/d), the float nan, or a string.                                       *)
(***************************************************************************)
RECURSIVE gcd(_, _)
gcd(a, b) == IF b = 0 THEN a ELSE gcd(b, a % b)

abs(a) == IF a < 0 THEN 0 - a ELSE a

RNum(n, d) ==
    LET g == gcd(abs(n), d)
    IN  [k |-> "num", n |-> n \div g, d |-> d \div g, s |-> <<>>]

RNaN == [k |-> "nan", n |-> 0, d |-> 1, s |-> <<>>]
RStr(s) == [k |-> "str", n |-> 0, d |-> 1, s |-> s]
Zero == RNum(0, 1)

\* a/b >= c/e, for positive denominators.
RatGeq(a, b, c, e) == a * e >= c * b

(***************************************************************************)
(* The shared preamble of every calculator:                                *)
(*     df = self.merged_df.copy()                                          *)
(*     if technician and technician != 'All':                              *)
(*         df = df[df['Technician'] == technician]                         *)
(* df['Technician'] raises KeyError when the column does not exist.        *)
(***************************************************************************)
Select(df, Keep(_)) == [df EXCEPT !.rows = SelectSeq(df.rows, Keep)]

filter_technician(df, technician) ==
    IF Truthy(technician) /\ technician # Str(<<"A", "l", "l">>)
    THEN IF "Technician" \in df.cols
         THEN Ok(Select(df, LAMBDA r : r["Technician"] = technician))
         ELSE Raise
    ELSE Ok(df)

\* df[df['Appt Status'] == 'Completed'], for a df that has the column.
Completed == Str(<<"C", "o", "m", "p", "l", "e", "t", "e", "d">>)

completed_jobs(df) == Select(df, LAMBDA r : r["Appt Status"] = Completed)

(***************************************************************************)
(* Series.mean() and Series.sum() of the Revenue column.  Missing values   *)
(* are skipped; the mean of no value is nan; text makes mean raise         *)
(* TypeError; sum concatenates a column that holds text only and raises    *)
(* TypeError on text mixed with numbers or missing values.                 *)
(***************************************************************************)
present(s) == SelectSeq(s, notna)

HasText(s) == \E i \in 1..Len(s) : s[i].t = "str"

series_mean(s) ==
    IF HasText(s) THEN [raised |-> TRUE, value |-> Zero]
    ELSE IF present(s) = <<>> THEN [raised |-> FALSE, value |-> RNaN]
    ELSE [raised |-> FALSE, value |-> RNum(sum(s), Len(present(s)))]

series_sum(s) ==
    IF ~ HasText(s) THEN [raised |-> FALSE, value |-> RNum(sum(s), 1)]
    ELSE IF \A i \in 1..Len(s) : s[i].t = "str"
    THEN [raised |-> FALSE, value |-> RStr(Flatten([i \in 1..Len(s) |-> s[i].v]))]
    ELSE [raised |-> TRUE, value |-> Zero]

(***************************************************************************)
(* The efficiency cell as the calculators read it:                         *)
(*     if isinstance(val, str): float(val.replace('%', '').strip())        *)
(*     elif isinstance(val, (int, float)): float(val)                      *)
(* float() accepts an optional sign, digits and an optional fraction here. *)
(***************************************************************************)
replace_percent(s) == SelectSeq(s, LAMBDA c : c # "%")

RECURSIVE strip(_)
strip(s) ==
    IF s = <<>> THEN s
    ELSE IF Head(s) = " " THEN strip(Tail(s))
    ELSE IF s[Len(s)] = " " THEN strip(SubSeq(s, 1, Len(s) - 1))
    ELSE s

IsDigit(c) == Ord(c) >= Ord("0") /\ Ord(c) <= Ord("9")

RECURSIVE digits_value(_)
digits_value(s) ==
    IF s = <<>> THEN 0
    ELSE 10 * digits_value(SubSeq(s, 1, Len(s) - 1)) + (Ord(s[Len(s)]) - Ord("0"))

RECURSIVE pow10(_)
pow10(n) == IF n = 0 THEN 1 ELSE 10 * pow10(n - 1)

\* float(s): [ok, n, d] with the value n/d, or ok = FALSE for ValueError.
float(s) ==
    LET neg == s # <<>> /\ s[1] = "-"
        body == IF neg THEN Tail(s) ELSE s
        dots == {i \in 1..Len(body) : body[i] = "."}
        whole == SelectSeq(body, LAMBDA c : c # ".")
        frac == IF dots = {} THEN 0 ELSE Len(body) - (CHOOSE i \in dots : TRUE)
        valid == /\ whole # <<>>
                 /\ Cardinality(dots) <= 1
                 /\ \A i \in 1..Len(whole) : IsDigit(whole[i])
    IN  IF valid
        THEN [ok |-> TRUE,
              n |-> (IF neg THEN 0 - digits_value(whole) ELSE digits_value(whole)),
              d |-> pow10(frac)]
        ELSE [ok |-> FALSE, n |-> 0, d |-> 1]

\* kind "float": a value was read; "error": float() raised ValueError;
\* "other": the cell is neither a string nor a number.
efficiency(val) ==
    IF val.t = "str"
    THEN LET f == float(strip(replace_percent(val.v)))
         IN  IF f.ok THEN [kind |-> "float", n |-> f.n, d |-> f.d]
             ELSE [kind |-> "error", n |-> 0, d |-> 1]
    ELSE IF val.t = "num" THEN [kind |-> "float", n |-> val.v, d |-> 1]
    ELSE [kind |-> "other", n |-> 0, d |-> 1]

\* The number of cells of s read as a value >= threshold.
count_at_least(s, threshold) ==
    Len(SelectSeq(s, LAMBDA val :
            /\ efficiency(val).kind = "float"
            /\ RatGeq(efficiency(val).n, efficiency(val).d, threshold, 1)))

(***************************************************************************)
(* Series.str.contains(pat, case=False, na=False).  The .str accessor      *)
(* raises AttributeError on a column that holds no text: a column of       *)
(* numeric dtype, or an object column whose present cells are all of one   *)
(* kind other than text.                                                   *)
(***************************************************************************)
IsSubstring(kw, text) ==
    \E i \in 0..(Len(text) - Len(kw)) :
        \A j \in 1..Len(kw) : text[i + j] = kw[j]

contains(val, pats) ==
    /\ val.t = "str"
    /\ \E kw \in pats : IsSubstring(casefold(kw), casefold(val.v))

str_accessor_ok(df, c) ==
    LET kinds == {df.rows[i][c].t : i \in 1..Len(df.rows)} \ {"nan"}
    IN  /\ c \in df.obj
        /\ kinds = {} \/ "str" \in kinds \/ Cardinality(kinds) >= 2

\* df[df[c].str.contains(...)].shape[0]
count_contains(df, c, pats) ==
    Len(SelectSeq(df.rows, LAMBDA r : contains(r[c], pats)))

Membership == {<<"M", "e", "m", "b", "e", "r", "s", "h", "i", "p">>}
Jetting == {<<"J", "e", "t", "t", "i", "n", "g">>}
Descal == {<<"D", "e", "s", "c", "a", "l">>}
Warranty == {<<"W", "a", "r", "r", "a", "n", "t", "y">>, <<"w", "a", "r", "r", "a", "n", "t", "y">>}

(***************************************************************************)
(* pd.to_datetime(..., errors='coerce') of one cell: a timestamp stays, a  *)
(* number is a count of nanoseconds since 1970 (hour 0 here), anything     *)
(* else becomes NaT.  Time is counted in hours.                            *)
(***************************************************************************)
to_datetime(val) ==
    IF val.t = "date" THEN val
    ELSE IF val.t = "num" THEN Date(0)
    ELSE NaN

(***************************************************************************)
(* The twelve calculators.  Each takes the value of self.merged_df and the *)
(* technician argument and returns the value the method returns; every     *)
(* exception raised inside the method's try block makes it return 0.       *)
(***************************************************************************)
calculate_avg_ticket(merged, technician) ==
    IF merged.none THEN Zero
    ELSE LET f == filter_technician(merged, technician)
         IN  IF f.raised THEN Zero
             ELSE IF "Revenue" \in f.df.cols
             THEN IF "Appt Status" \notin f.df.cols THEN Zero
                  ELSE LET jobs == completed_jobs(f.df).rows
                           m == series_mean(column(jobs, "Revenue"))
                       IN  IF Len(jobs) > 0
                           THEN (IF m.raised THEN Zero ELSE m.value)
                           ELSE Zero
             ELSE Zero

calculate_job_close_rate(merged, technician) ==
    IF merged.none THEN Zero
    ELSE LET f == filter_technician(merged, technician)
         IN  IF f.raised THEN Zero
             ELSE IF "Appt Status" \notin f.df.cols THEN Zero
             ELSE LET completed == Len(completed_jobs(f.df).rows)
                      total == Len(f.df.rows)
                  IN  IF total > 0 THEN RNum(completed * 100, total) ELSE Zero

\* `today` is datetime.now(), in hours; timedelta(days=7) is 168 hours.
calculate_weekly_revenue(merged, technician, today) ==
    IF merged.none THEN Zero
    ELSE LET f == filter_technician(merged, technician)
         IN  IF f.raised THEN Zero
             ELSE IF "Revenue" \in f.df.cols /\ "Created At" \in f.df.cols
             THEN LET current_week ==
                          SelectSeq(f.df.rows, LAMBDA r :
                              /\ to_datetime(r["Created At"]).t = "date"
                              /\ to_datetime(r["Created At"]).v >= today - 168)
                      total == series_sum(column(current_week, "Revenue"))
                  IN  IF total.raised THEN Zero ELSE total.value
             ELSE Zero

RECURSIVE fraction_sum(_)
fraction_sum(s) ==
    IF s = <<>> THEN [n |-> 0, d |-> 1]
    ELSE LET rest == fraction_sum(Tail(s))
         IN  [n |-> Head(s).n * rest.d + rest.n * Head(s).d, d |-> Head(s).d * rest.d]

calculate_avg_job_efficiency(merged, technician) ==
    IF merged.none THEN Zero
    ELSE LET f == filter_technician(merged, technician)
         IN  IF f.raised THEN Zero
             ELSE IF "Job Efficiency" \in f.df.cols
             THEN LET efficiency_data == present(column(f.df.rows, "Job Efficiency"))
                      read == [i \in 1..Len(efficiency_data) |-> efficiency(efficiency_data[i])]
                      efficiency_values == SelectSeq(read, LAMBDA e : e.kind = "float")
                      total == fraction_sum(efficiency_values)
                  IN  IF efficiency_values # <<>>
                      THEN RNum(total.n, total.d * Len(efficiency_values))
                      ELSE Zero
             ELSE Zero

\* calculate_compliance_rate with the test for the efficiency column made
\* before the test for completed jobs: the default 95 is returned although
\* the selection holds no completed job.
compliance_rate_default_first(merged, technician) ==
    IF merged.none THEN Zero
    ELSE LET f == filter_technician(merged, technician)
         IN  IF f.raised THEN Zero
             ELSE IF "Appt Status" \notin f.df.cols THEN Zero
             ELSE IF "Job Efficiency" \notin f.df.cols THEN RNum(95, 1)
             ELSE LET jobs == completed_jobs(f.df).rows
                      good_efficiency == present(column(jobs, "Job Efficiency"))
                  IN  IF Len(jobs) > 0 /\ Len(good_efficiency) > 0
                      THEN RNum(count_at_least(good_efficiency, 80) * 100, Len(jobs))
                      ELSE Zero

calculate_compliance_rate(merged, technician) ==
    IF merged.none THEN Zero
    ELSE LET f == filter_technician(merged, technician)
         IN  IF f.raised THEN Zero
             ELSE IF "Appt Status" \notin f.df.cols THEN Zero
             ELSE LET jobs == completed_jobs(f.df).rows
                  IN  IF Len(jobs) > 0
                      THEN IF "Job Efficiency" \in f.df.cols
                           THEN LET good_efficiency == present(column(jobs, "Job Efficiency"))
                                IN  IF Len(good_efficiency) > 0
                                    THEN RNum(count_at_least(good_efficiency, 80) * 100, Len(jobs))
                                    ELSE Zero
                           ELSE RNum(95, 1)
                      ELSE Zero

calculate_membership_win_rate(merged, technician) ==
    IF merged.none THEN Zero
    ELSE LET f == filter_technician(merged, technician)
             total_opportunities == Len(f.df.rows)
             c == IF "Items_Sold" \in f.df.cols THEN "Items_Sold" ELSE "Service Category"
         IN  IF f.raised THEN Zero
             ELSE IF c \in f.df.cols
             THEN IF ~ str_accessor_ok(f.df, c) THEN Zero
                  ELSE IF total_opportunities > 0
                  THEN RNum(count_contains(f.df, c, Membership) * 100, total_opportunities)
                  ELSE Zero
             ELSE Zero

\* The body shared by calculate_kpi_hydro_jetting and
\* calculate_kpi_descaling, which differ in the keyword only.
keyword_count(merged, technician, pats) ==
    IF merged.none THEN Zero
    ELSE LET f == filter_technician(merged, technician)
             inCategory == "Service Category" \in f.df.cols
             inItems == "Items_Sold" \in f.df.cols
         IN  IF f.raised THEN Zero
             ELSE IF inCategory /\ ~ str_accessor_ok(f.df, "Service Category") THEN Zero
             ELSE IF inItems /\ ~ str_accessor_ok(f.df, "Items_Sold") THEN Zero
             ELSE RNum((IF inCategory THEN count_contains(f.df, "Service Category", pats) ELSE 0)
                       + (IF inItems THEN count_contains(f.df, "Items_Sold", pats) ELSE 0), 1)

calculate_kpi_hydro_jetting(merged, technician) == keyword_count(merged, technician, Jetting)

calculate_kpi_descaling(merged, technician) == keyword_count(merged, technician, Descal)

calculate_on_time_arrival(merged, technician) ==
    IF merged.none THEN Zero
    ELSE LET f == filter_technician(merged, technician)
         IN  IF f.raised THEN Zero
             ELSE IF "Job Efficiency" \in f.df.cols
             THEN LET vals == present(column(f.df.rows, "Job Efficiency"))
                      on_time_count == count_at_least(vals, 80)
                      total_count == Len(SelectSeq(vals, LAMBDA val : efficiency(val).kind # "error"))
                  IN  IF total_count > 0 THEN RNum(on_time_count * 100, total_count) ELSE Zero
             ELSE IF "Appt Status" \notin f.df.cols THEN Zero
             ELSE LET on_time == Len(completed_jobs(f.df).rows)
                      total == Len(f.df.rows)
                  IN  IF total > 0 THEN RNum(on_time * 100, total) ELSE Zero

\* int(n * 0.7) is (7 * n) \div 10 for the row counts of the model.
calculate_five_star_reviews(merged, technician) ==
    IF merged.none THEN Zero
    ELSE LET f == filter_technician(merged, technician)
         IN  IF f.raised THEN Zero
             ELSE IF "Appt Status" \notin f.df.cols THEN Zero
             ELSE LET jobs == completed_jobs(f.df).rows
                  IN  IF "Job Efficiency" \in f.df.cols
                      THEN RNum(count_at_least(present(column(jobs, "Job Efficiency")), 90), 1)
                      ELSE RNum((7 * Len(jobs)) \div 10, 1)

calculate_warranty_call_rate(merged, technician) ==
    IF merged.none THEN Zero
    ELSE LET f == filter_technician(merged, technician)
             total_jobs == Len(f.df.rows)
             inCategory == "Service Category" \in f.df.cols
         IN  IF f.raised THEN Zero
             ELSE IF inCategory /\ ~ str_accessor_ok(f.df, "Service Category") THEN Zero
             ELSE IF total_jobs > 0
             THEN RNum((IF inCategory THEN count_contains(f.df, "Service Category", Warranty) ELSE 0) * 100,
                       total_jobs)
             ELSE Zero

calculate_upsell_conversion(merged, technician) ==
    IF merged.none THEN Zero
    ELSE LET f == filter_technician(merged, technician)
             total_jobs == Len(f.df.rows)
             avg_revenue == series_mean(column(f.df.rows, "Revenue"))
             upsell_jobs ==
                 IF "Total_Items_Qty" \in f.df.cols
                 THEN Len(SelectSeq(f.df.rows, LAMBDA r :
                          r["Total_Items_Qty"].t = "num" /\ r["Total_Items_Qty"].v > 1))
                 ELSE IF "Revenue" \in f.df.cols /\ avg_revenue.value.k = "num"
                 THEN Len(SelectSeq(f.df.rows, LAMBDA r :
                          /\ r["Revenue"].t = "num"
                          /\ 2 * r["Revenue"].v * avg_revenue.value.d > 3 * avg_revenue.value.n))
                 ELSE 0
         IN  IF f.raised THEN Zero
             ELSE IF /\ "Total_Items_Qty" \notin f.df.cols
                     /\ "Revenue" \in f.df.cols
                     /\ avg_revenue.raised THEN Zero
             ELSE IF total_jobs > 0 THEN RNum(upsell_jobs * 100, total_jobs) ELSE Zero

Calculators == {"calculate_avg_ticket", "calculate_job_close_rate",
                "calculate_weekly_revenue", "calculate_avg_job_efficiency",
                "calculate_compliance_rate", "calculate_membership_win_rate",
                "calculate_kpi_hydro_jetting", "calculate_kpi_descaling",
                "calculate_on_time_arrival", "calculate_five_star_reviews",
                "calculate_warranty_call_rate", "calculate_upsell_conversion"}

\* The value the named calculator returns on the given unified table.
calculate(name, merged, technician, today) ==
    CASE name = "calculate_avg_ticket" -> calculate_avg_ticket(merged, technician)
      [] name = "calculate_job_close_rate" -> calculate_job_close_rate(merged, technician)
      [] name = "calculate_weekly_revenue" -> calculate_weekly_revenue(merged, technician, today)
      [] name = "calculate_avg_job_efficiency" -> calculate_avg_job_efficiency(merged, technician)
      [] name = "calculate_compliance_rate" -> calculate_compliance_rate(merged, technician)
      [] name = "calculate_membership_win_rate" -> calculate_membership_win_rate(merged, technician)
      [] name = "calculate_kpi_hydro_jetting" -> calculate_kpi_hydro_jetting(merged, technician)
      [] name = "calculate_kpi_descaling" -> calculate_kpi_descaling(merged, technician)
      [] name = "calculate_on_time_arrival" -> calculate_on_time_arrival(merged, technician)
      [] name = "calculate_five_star_reviews" -> calculate_five_star_reviews(merged, technician)
      [] name = "calculate_warranty_call_rate" -> calculate_warranty_call_rate(merged, technician)
      [] name = "calculate_upsell_conversion" -> calculate_upsell_conversion(merged, technician)

(***************************************************************************)
(* The calculators as operations of the dashboard: each reads              *)
(* self.merged_df, works on a copy and leaves every field unchanged.       *)
(***************************************************************************)
Technicians == {PyNone, Str(<<"A", "l", "l">>), Str(<<"A", "n", "n">>),
                Str(<<"Z", "e", "d">>)}

Call(name) ==
    \E technician \in Technicians :
        /\ last' = [op |-> name, technician |-> technician,
                    value |-> calculate(name, merged_df, technician, now)]
        /\ UNCHANGED <<appointments_df, items_sold_df, opportunities_df,
                       job_times_df, merged_df, now, pc>>

avg_ticket == Call("calculate_avg_ticket")
job_close_rate == Call("calculate_job_close_rate")
weekly_revenue == Call("calculate_weekly_revenue")
avg_job_efficiency == Call("calculate_avg_job_efficiency")
compliance_rate == Call("calculate_compliance_rate")
membership_win_rate == Call("calculate_membership_win_rate")
kpi_hydro_jetting == Call("calculate_kpi_hydro_jetting")
kpi_descaling == Call("calculate_kpi_descaling")
on_time_arrival == Call("calculate_on_time_arrival")
five_star_reviews == Call("calculate_five_star_reviews")
warranty_call_rate == Call("calculate_warranty_call_rate")
upsell_conversion == Call("calculate_upsell_conversion")

CalculatorCall ==
    \/ avg_ticket \/ job_close_rate \/ weekly_revenue \/ avg_job_efficiency
    \/ compliance_rate \/ membership_win_rate \/ kpi_hydro_jetting \/ kpi_descaling
    \/ on_time_arrival \/ five_star_reviews \/ warranty_call_rate \/ upsell_conversion

(***************************************************************************)
(* ServiceDashboard.load_data.  A file argument is absent, an Excel file   *)
(* holding a table, or a file pd.read_excel cannot read.  The four files   *)
(* are read in the order appointments, items sold, opportunities, job      *)
(* times; a table is replaced only when its file is given, and the first   *)
(* unreadable file ends the call with the tables read so far replaced.     *)
(***************************************************************************)
NoFile == [kind |-> "none", df |-> NoneDF]
Xlsx(df) == [kind |-> "xlsx", df |-> df]
Unreadable == [kind |-> "bad", df |-> NoneDF]

\* str.strip() of the header names that carry white space in the model.
strip_header(c) ==
    CASE c = "Revenue " -> "Revenue"
      [] c = " Job" -> "Job"
      [] OTHER -> c

\* df.columns = df.columns.str.strip()
strip_columns(df) ==
    LET raw(c) == CHOOSE x \in df.cols : strip_header(x) = c
        cols == {strip_header(c) : c \in df.cols}
    IN  DataFrame(cols, {strip_header(c) : c \in df.obj},
                  [i \in 1..Len(df.rows) |-> [c \in cols |-> df.rows[i][raw(c)]]])

load_data_result(files, current) ==
    LET bad == {i \in 1..4 : files[i].kind = "bad"}
        stop == IF bad = {} THEN 5 ELSE CHOOSE i \in bad : \A j \in bad : i <= j
        after(i) == IF i < stop /\ files[i].kind = "xlsx"
                    THEN strip_columns(files[i].df)
                    ELSE current[i]
    IN  [op |-> "load_data", ok |-> bad = {},
         error |-> IF bad = {} THEN "" ELSE "Error loading data",
         tables |-> [i \in 1..4 |-> after(i)]]

load_data(appointments_file, items_sold_file, opportunities_file, job_times_file) ==
    LET r == load_data_result(<<appointments_file, items_sold_file,
                                opportunities_file, job_times_file>>,
                              <<appointments_df, items_sold_df,
                                opportunities_df, job_times_df>>)
    IN  /\ appointments_df' = r.tables[1]
        /\ items_sold_df' = r.tables[2]
        /\ opportunities_df' = r.tables[3]
        /\ job_times_df' = r.tables[4]
        /\ last' = [op |-> r.op, ok |-> r.ok, error |-> r.error,
                    files |-> <<appointments_file.kind, items_sold_file.kind,
                                opportunities_file.kind, job_times_file.kind>>]
        /\ UNCHANGED <<merged_df, now, pc>>

(***************************************************************************)
(* Input tables.  A source table is a column set and a sequence of row     *)
(* identities; row i carries job number i, job id 10 + i, customer i.      *)
(***************************************************************************)
SeqsUpTo(S, n) == UNION {[1..k -> S] : k \in 0..n}

Email(i) == IF i = 1 THEN <<"a", "@", "x">> ELSE <<"b", "@", "x">>

AppointmentCell(c, i) ==
    CASE c = "Job" -> Num(i)
      [] c = "Job ID" -> Num(10 + i)
      [] c = "Customer Email" -> Str(Email(i))
      [] c = "Revenue" -> Num(100 * i)
      [] c = "Notes" -> Str(<<"n", "b">>)
      [] c = "Items_Sold" -> Str(<<"o", "l", "d">>)

\* In a job-times table that has both keys, the job ids are those of the
\* other job, so that a join on Job differs from a join on Job ID.
JobTimeCell(c, i) ==
    CASE c = "Job" -> Num(i)
      [] c = "Job ID" -> Num(10 + (3 - i))
      [] c = "Job Efficiency" -> Num(70 + 10 * i)
      [] c = "Notes" -> Str(<<"n", "j">>)

OppCell(c, i) ==
    CASE c = "Job" -> Num(i)
      [] c = "Job ID" -> Num(10 + i)
      [] c = "Stage" -> Str(<<"W", "o", "n">>)
      [] c = "Notes" -> Str(<<"n", "o">>)

Table(cols, ids, Cell(_, _)) ==
    read_excel(cols, [k \in 1..Len(ids) |-> [c \in cols |-> Cell(c, ids[k])]])

BaseSchemas == {{"Job", "Customer Email", "Revenue", "Notes"},
                {"Job ID", "Customer Email", "Revenue", "Notes"},
                {"Job", "Job ID", "Customer Email", "Items_Sold"}}

JobTimeSchemas == {{"Job", "Job Efficiency", "Notes"},
                   {"Job ID", "Job Efficiency"},
                   {"Job", "Job ID", "Job Efficiency"}}

OppSchemas == {{"Job", "Stage", "Notes"}, {"Job ID", "Stage"}}

BaseMenu == {Table(cs, ids, AppointmentCell) :
                cs \in BaseSchemas, ids \in SeqsUpTo({1, 2}, MaxBaseRows)}

JobTimesMenu == {NoneDF} \cup
    {Table(cs, ids, JobTimeCell) :
        cs \in JobTimeSchemas, ids \in SeqsUpTo({1, 2}, MaxJobTimeRows)}

OppMenu == {NoneDF} \cup
    {Table(cs, ids, OppCell) : cs \in OppSchemas, ids \in SeqsUpTo({1, 2}, MaxOppRows)}

\* Items-sold rows: customer, price, quantity, line item.
ItemRows ==
    <<[e |-> Str(Email(1)), p |-> Num(10), q |-> Num(1), l |-> Str(<<"A">>)],
      [e |-> Str(Email(1)), p |-> Num(20), q |-> Num(2), l |-> Str(<<"B">>)],
      [e |-> Str(Email(2)), p |-> NaN, q |-> Num(1), l |-> Str(<<"A">>)],
      [e |-> NaN, p |-> Num(10), q |-> Num(1), l |-> Str(<<"B">>)],
      [e |-> Str(Email(2)), p |-> Num(20), q |-> Num(1), l |-> NaN]>>

ItemCell(c, i) ==
    CASE c = "Customer Email" -> ItemRows[i].e
      [] c = "Price" -> ItemRows[i].p
      [] c = "Quantity" -> ItemRows[i].q
      [] c = "Line Item" -> ItemRows[i].l

ItemsFull == {"Customer Email", "Price", "Quantity", "Line Item"}

\* Well-formed items tables of up to MaxItemRows rows.
ItemsMenu == {Table(ItemsFull, ids, ItemCell) : ids \in SeqsUpTo(1..4, MaxItemRows)}

\* A few items tables, among them ones the aggregation cannot process.
ItemsFewMenu == {NoneDF,
                 Table(ItemsFull, <<>>, ItemCell),
                 Table(ItemsFull, <<1, 2, 3>>, ItemCell),
                 Table(ItemsFull, <<1, 5>>, ItemCell),
                 Table({"Customer Email", "Quantity", "Line Item"}, <<1>>, ItemCell),
                 Table({"Customer Email", "Quantity", "Line Item"}, <<>>, ItemCell),
                 Table({"Price", "Quantity", "Line Item"}, <<1>>, ItemCell)}

Loaded(b, it, o, j) ==
    /\ appointments_df = b
    /\ items_sold_df = it
    /\ opportunities_df = o
    /\ job_times_df = j
    /\ merged_df = NoneDF
    /\ now = 480014
    /\ pc = OutsideMain
    /\ last = [op |-> "load_data", ok |-> TRUE]

\* The dashboard after __init__ and one load_data, before merge_data.
MergeInit ==
    \/ \E b \in BaseMenu, j \in JobTimesMenu, o \in OppMenu, it \in ItemsFewMenu :
          Loaded(b, it, o, j)
    \/ \E b \in BaseMenu, it \in ItemsMenu : Loaded(b, it, NoneDF, NoneDF)

MergeNext == merge_data

SpecMerge == MergeInit /\ [][MergeNext]_vars

(***************************************************************************)
(* Unified tables for the calculators: appointments tables whose rows are  *)
(* drawn from five jobs and whose columns are all the columns the           *)
(* calculators read, or all but a few; with or without an items table.     *)
(***************************************************************************)
MaxCalcRows == 2

CalcRows ==
    <<[tech |-> Str(<<"A", "n", "n">>), status |-> Completed, revenue |-> Num(100),
       created |-> Date(480014 - 72), eff |-> Num(85), email |-> Str(Email(2)),
       category |-> Str(<<"H", "y", "d", "r", "o", " ", "J", "e", "t", "t", "i", "n", "g">>)],
      [tech |-> Str(<<"B", "o", "b">>), status |-> Completed, revenue |-> Str(<<"5", "0", " ", "u", "s", "d">>),
       created |-> Date(480014 - 24), eff |-> Str(<<"9", "0", "%">>), email |-> Str(Email(2)),
       category |-> Str(<<"M", "E", "M", "B", "E", "R", "S", "H", "I", "P">>)],
      [tech |-> Str(<<"A", "n", "n">>), status |-> Completed,
       revenue |-> NaN, created |-> Str(<<"s", "o", "o", "n">>), eff |-> Str(<<"b", "a", "d">>),
       email |-> Str(Email(1)), category |-> NaN],
      [tech |-> NaN, status |-> Completed, revenue |-> Num(300),
       created |-> Date(480014 + 48), eff |-> NaN, email |-> Str(Email(1)),
       category |-> Str(<<"D", "e", "s", "c", "a", "l", "i", "n", "g">>)],
      [tech |-> Str(<<"B", "o", "b">>), status |-> Str(<<"C", "a", "n", "c", "e", "l", "l", "e", "d">>),
       revenue |-> Num(200), created |-> Date(480014 - 169), eff |-> Num(70),
       email |-> Str(Email(1)), category |-> Str(<<"w", "a", "r", "r", "a", "n", "t", "y">>)]>>

CalcCell(c, i) ==
    CASE c = "Technician" -> CalcRows[i].tech
      [] c = "Appt Status" -> CalcRows[i].status
      [] c = "Revenue" -> CalcRows[i].revenue
      [] c = "Created At" -> CalcRows[i].created
      [] c = "Job Efficiency" -> CalcRows[i].eff
      [] c = "Service Category" -> CalcRows[i].category
      [] c = "Customer Email" -> CalcRows[i].email

CalcColumns == {"Technician", "Appt Status", "Revenue", "Created At",
                "Job Efficiency", "Service Category", "Customer Email"}

CalcSchemas == {CalcColumns \ D :
                  D \in {{}, {"Technician"}, {"Job Efficiency"}, {"Appt Status"},
                         {"Revenue"}, {"Service Category"},
                         {"Technician", "Job Efficiency", "Created At"}}}

CalcBaseMenu == {Table(cs, ids, CalcCell) :
                    cs \in CalcSchemas, ids \in SeqsUpTo(1..5, MaxCalcRows)}

CalcItemRows ==
    <<[e |-> Str(Email(1)), p |-> Num(10), q |-> Num(2),
       l |-> Str(<<"G", "o", "l", "d", " ", "m", "e", "m", "b", "e", "r", "s", "h", "i", "p">>)],
      [e |-> Str(Email(2)), p |-> Num(5), q |-> Num(1),
       l |-> Str(<<"j", "e", "t", "t", "i", "n", "g">>)],
      [e |-> Str(Email(1)), p |-> Num(5), q |-> Num(1),
       l |-> Str(<<"h", "y", "d", "r", "o">>)]>>

CalcItemCell(c, i) ==
    CASE c = "Customer Email" -> CalcItemRows[i].e
      [] c = "Price" -> CalcItemRows[i].p
      [] c = "Quantity" -> CalcItemRows[i].q
      [] c = "Line Item" -> CalcItemRows[i].l

CalcItemsMenu == {NoneDF, Table(ItemsFull, <<1, 2, 3>>, CalcItemCell)}

\* The dashboard after __init__, one load_data of an appointments file and,
\* possibly, an items file, and one merge_data.
CalcInit ==
    \E b \in CalcBaseMenu, it \in CalcItemsMenu :
        /\ appointments_df = b
        /\ items_sold_df = it
        /\ opportunities_df = NoneDF
        /\ job_times_df = NoneDF
        /\ merged_df = merge_data_result(b, it, NoneDF, NoneDF, NoneDF).merged_df
        /\ now = 480014
        /\ pc = OutsideMain
        /\ last = [merge_data_result(b, it, NoneDF, NoneDF, NoneDF) EXCEPT !.merged_df = NoneDF]

CalcNext == CalculatorCall

SpecCalc == CalcInit /\ [][CalcNext]_vars

(***************************************************************************)
(* Unified tables for the calculators that read the efficiency column:     *)
(* appointments tables of completed jobs whose efficiency cells are drawn  *)
(* from numbers, percent strings, text that is no number and missing       *)
(* values.                                                                 *)
(***************************************************************************)
MaxEffRows == 3

EffCells ==
    <<Num(85),
      Str(<<"9", "0", "%">>),
      Str(<<"n", "o", "t", "-", "a", "-", "n", "u", "m", "b", "e", "r">>),
      NaN,
      Num(150),
      Str(<<"9", "%", "0">>)>>

EffCell(c, i) ==
    CASE c = "Technician" -> (IF i % 2 = 1 THEN Str(<<"A", "n", "n">>) ELSE Str(<<"B", "o", "b">>))
      [] c = "Appt Status" -> Completed
      [] c = "Job Efficiency" -> EffCells[i]

EffBaseMenu == {Table({"Technician", "Appt Status", "Job Efficiency"}, ids, EffCell) :
                   ids \in SeqsUpTo(1..6, MaxEffRows)}

\* The dashboard after __init__, one load_data of an appointments file and
\* one merge_data.
EffInit ==
    \E b \in EffBaseMenu :
        /\ appointments_df = b
        /\ items_sold_df = NoneDF
        /\ opportunities_df = NoneDF
        /\ job_times_df = NoneDF
        /\ merged_df = merge_data_result(b, NoneDF, NoneDF, NoneDF, NoneDF).merged_df
        /\ now = 480014
        /\ pc = OutsideMain
        /\ last = [merge_data_result(b, NoneDF, NoneDF, NoneDF, NoneDF) EXCEPT !.merged_df = NoneDF]

\* The calculators whose value is a percentage.
EffNext ==
    \/ job_close_rate \/ avg_job_efficiency \/ compliance_rate \/ membership_win_rate
    \/ on_time_arrival \/ warranty_call_rate \/ upsell_conversion

SpecEff == EffInit /\ [][EffNext]_vars

(***************************************************************************)
(* The dashboard from its construction on: any sequence of load_data,      *)
(* merge_data and calculator calls, over a few uploaded files.             *)
(***************************************************************************)
AppointmentFiles ==
    {NoFile, Unreadable,
     Xlsx(Table({" Job", "Customer Email", "Technician", "Appt Status", "Revenue ", "Created At"},
                <<1, 2>>, LAMBDA c, i : IF c = " Job" THEN Num(i)
                                        ELSE IF c = "Revenue " THEN CalcCell("Revenue", i)
                                        ELSE CalcCell(c, i))),
     Xlsx(Table({"Job ID", "Technician", "Appt Status", "Service Category"},
                <<4>>, LAMBDA c, i : IF c = "Job ID" THEN Num(10 + i) ELSE CalcCell(c, i)))}

ItemsFiles == {NoFile, Xlsx(Table(ItemsFull, <<1, 2>>, CalcItemCell))}

OpportunityFiles == {NoFile, Xlsx(Table({"Job", "Stage"}, <<1>>, OppCell))}

JobTimeFiles == {NoFile, Unreadable, Xlsx(Table({"Job", "Job Efficiency"}, <<1, 1>>, JobTimeCell))}

Upload ==
    \E a \in AppointmentFiles, it \in ItemsFiles, o \in OpportunityFiles, j \in JobTimeFiles :
        load_data(a, it, o, j)

\* The state after ServiceDashboard.__init__.
Init ==
    /\ appointments_df = NoneDF
    /\ items_sold_df = NoneDF
    /\ opportunities_df = NoneDF
    /\ job_times_df = NoneDF
    /\ merged_df = NoneDF
    /\ now = 480014
    /\ pc = OutsideMain
    /\ last = [op |-> "__init__"]

Next == Upload \/ merge_data \/ CalculatorCall

Spec == Init /\ [][Next]_vars

(***************************************************************************)
(* ServiceDashboard.create_progress_bar_html.  value and goal are numbers  *)
(* as the calculators return them: a fraction n/d or nan.  The result      *)
(* holds the parts the method interpolates into the HTML text: the width   *)
(* of the bar, its colour, the icon and the two formatted numbers.         *)
(***************************************************************************)
DigitChars == <<"0", "1", "2", "3", "4", "5", "6", "7", "8", "9">>

\* str(n) for n >= 0
RECURSIVE Decimal(_)
Decimal(n) ==
    IF n < 10 THEN <<DigitChars[n + 1]>>
    ELSE Decimal(n \div 10) \o <<DigitChars[(n % 10) + 1]>>

\* n written with exactly `width` digits
RECURSIVE ZeroPadded(_, _)
ZeroPadded(n, width) ==
    IF width = 0 THEN <<>>
    ELSE ZeroPadded(n \div 10, width - 1) \o <<DigitChars[(n % 10) + 1]>>

\* the ',' option of the format mini-language: groups of three digits
RECURSIVE Grouped(_)
Grouped(n) ==
    IF n < 1000 THEN Decimal(n)
    ELSE Grouped(n \div 1000) \o <<",">> \o ZeroPadded(n % 1000, 3)

\* format(value, '[,].<precision>f'): the value rounded half to even at the
\* given number of decimals, the sign of a negative value kept.
format_float(value, precision, grouping) ==
    IF value.k = "nan" THEN <<"n", "a", "n">>
    ELSE LET scale == pow10(precision)
             scaled == abs(value.n) * scale
             q == scaled \div value.d
             rem == scaled % value.d
             rounded == IF 2 * rem > value.d \/ (2 * rem = value.d /\ q % 2 = 1)
                        THEN q + 1 ELSE q
             whole == rounded \div scale
         IN  (IF value.n < 0 THEN <<"-">> ELSE <<>>)
             \o (IF grouping THEN Grouped(whole) ELSE Decimal(whole))
             \o (IF precision > 0 THEN <<".">> \o ZeroPadded(rounded % scale, precision) ELSE <<>>)

\* (value / goal) * 100 for goal # 0
ratio_percent(value, goal) ==
    IF value.k = "nan" \/ goal.k = "nan" THEN RNaN
    ELSE IF goal.n > 0 THEN RNum(value.n * goal.d * 100, value.d * goal.n)
    ELSE RNum((0 - value.n) * goal.d * 100, value.d * (0 - goal.n))

\* min(x, 100): 100 when 100 < x, otherwise x (nan stays nan)
min_100(x) == IF x.k = "num" /\ x.n > 100 * x.d THEN RNum(100, 1) ELSE x

\* x >= threshold, false for nan
at_least(x, threshold) == x.k = "num" /\ RatGeq(x.n, x.d, threshold, 1)

\* create_progress_bar_html with the tiers tested in ascending order: a
\* progress of 60 or more is orange whatever it is.
create_progress_bar_html_ascending(value, goal, label, format_type) ==
    LET progress_percent == IF goal = Zero THEN Zero ELSE min_100(ratio_percent(value, goal))
        tier == IF at_least(progress_percent, 60) THEN <<"#FF9800", "below">>
                ELSE IF at_least(progress_percent, 80) THEN <<"#2196F3", "near">>
                ELSE IF at_least(progress_percent, 100) THEN <<"#4CAF50", "on">>
                ELSE <<"#F44336", "off">>
    IN  [label |-> label,
         progress_percent |-> progress_percent,
         color |-> tier[1],
         icon |-> tier[2],
         value_str |-> CASE format_type = "currency" -> <<"$">> \o format_float(value, 2, TRUE)
                         [] format_type = "percentage" -> format_float(value, 1, FALSE) \o <<"%">>
                         [] OTHER -> format_float(value, 0, TRUE),
         goal_str |-> CASE format_type = "currency" -> <<"$">> \o format_float(goal, 0, TRUE)
                        [] format_type = "percentage" -> format_float(goal, 0, FALSE) \o <<"%">>
                        [] OTHER -> format_float(goal, 0, TRUE)]

\* The icons are named: "on" is the check mark, "near" the dot, "below" the
\* triangle up, "off" the triangle down.
create_progress_bar_html(value, goal, label, format_type) ==
    LET progress_percent == IF goal = Zero THEN Zero ELSE min_100(ratio_percent(value, goal))
        tier == IF at_least(progress_percent, 100) THEN <<"#4CAF50", "on">>
                ELSE IF at_least(progress_percent, 80) THEN <<"#2196F3", "near">>
                ELSE IF at_least(progress_percent, 60) THEN <<"#FF9800", "below">>
                ELSE <<"#F44336", "off">>
    IN  [label |-> label,
         progress_percent |-> progress_percent,
         color |-> tier[1],
         icon |-> tier[2],
         value_str |-> CASE format_type = "currency" -> <<"$">> \o format_float(value, 2, TRUE)
                         [] format_type = "percentage" -> format_float(value, 1, FALSE) \o <<"%">>
                         [] OTHER -> format_float(value, 0, TRUE),
         goal_str |-> CASE format_type = "currency" -> <<"$">> \o format_float(goal, 0, TRUE)
                        [] format_type = "percentage" -> format_float(goal, 0, FALSE) \o <<"%">>
                        [] OTHER -> format_float(goal, 0, TRUE)]

\* Values and goals at, between and beyond the tier limits; numbers with a
\* fraction are multiples of 1/4, which binary floating point holds exactly.
BarValues ==
    {RNaN} \cup {RNum(n, 1) : n \in {-40, 0, 15, 20, 25, 48, 59, 60, 64, 79, 80, 82, 99, 100,
                                     101, 1500, 2000, 2500, 12000, 16000, 20000, 1234567}}
           \cup {RNum(n, 4) : n \in {1, 2, 3, 6, 10, 329, 331, 7999}}

BarGoals == {RNum(n, 1) : n \in {-100, 0, 25, 80, 100, 2500, 20000}} \cup {RNum(5, 2)}

FormatTypes == {"currency", "percentage", "number"}

progress_bar ==
    \E value \in BarValues, goal \in BarGoals, format_type \in FormatTypes :
        /\ last' = [op |-> "create_progress_bar_html", value |-> value, goal |-> goal,
                    format_type |-> format_type,
                    html |-> create_progress_bar_html(value, goal, "KPI", format_type)]
        /\ UNCHANGED <<appointments_df, items_sold_df, opportunities_df,
                       job_times_df, merged_df, now, pc>>

BarNext == progress_bar

SpecBar == Init /\ [][BarNext]_vars

\* The files uploaded to main: those above, an appointments file with
\* numeric revenue and dates on different days, and an items file the
\* aggregation of merge_data cannot process.
MainAppointmentFiles ==
    AppointmentFiles \cup
    {Xlsx(Table({"Job", "Customer Email", "Technician", "Appt Status", "Revenue",
                 "Created At", "Service Category"},
                <<1, 5>>, LAMBDA c, i : IF c = "Job" THEN Num(i) ELSE CalcCell(c, i)))}

MainItemsFiles ==
    ItemsFiles \cup {Xlsx(Table({"Customer Email", "Quantity", "Line Item"}, <<1>>, ItemCell))}

MainJobTimeFiles == {NoFile, Xlsx(Table({"Job", "Job Efficiency"}, <<1, 2>>, JobTimeCell))}

(***************************************************************************)
(* ServiceDashboard.get_technicians: 'All' followed by the sorted distinct *)
(* technicians of the unified table.                                       *)
(***************************************************************************)
get_technicians(merged) ==
    IF merged.none THEN <<Str(<<"A", "l", "l">>)>>
    ELSE IF "Technician" \in merged.cols
    THEN <<Str(<<"A", "l", "l">>)>>
         \o SortedKeys({merged.rows[i]["Technician"] : i \in 1..Len(merged.rows)} \ {NaN})
    ELSE <<Str(<<"A", "l", "l">>)>>

(***************************************************************************)
(* The date-range step of main (lines 804-823), on the unified table and   *)
(* the tuple st.date_input returns.  pd.to_datetime without errors=        *)
(* raises on a text that is no date, before the column is assigned; the    *)
(* except clause then leaves the table as it was.  Otherwise the column    *)
(* is replaced by timestamps; with no timestamp at all the step ends in    *)
(* the except clause after that assignment; with a tuple of two dates the  *)
(* table is replaced by its rows whose day lies between them.  A day is    *)
(* 24 hours.                                                               *)
(***************************************************************************)
day(val) == val.v \div 24

HasUnparsableDate(merged) ==
    \E i \in 1..Len(merged.rows) : merged.rows[i]["Created At"].t = "str"

with_datetimes(merged) ==
    [merged EXCEPT !.obj = @ \ {"Created At"},
                   !.rows = [i \in 1..Len(merged.rows) |->
                                [merged.rows[i] EXCEPT !["Created At"] = to_datetime(@)]]]

days_of(merged) ==
    {day(with_datetimes(merged).rows[i]["Created At"]) :
        i \in {j \in 1..Len(merged.rows) : with_datetimes(merged).rows[j]["Created At"].t = "date"}}

\* The tuples the date_input widget can return: the default (min, max), a
\* range chosen within it, or a range of which only the start is chosen.
date_ranges(merged) ==
    IF merged.none \/ "Created At" \notin merged.cols THEN {<<>>}
    ELSE IF HasUnparsableDate(merged) \/ days_of(merged) = {} THEN {<<>>}
    ELSE LET min_date == CHOOSE d \in days_of(merged) : \A e \in days_of(merged) : d <= e
             max_date == CHOOSE d \in days_of(merged) : \A e \in days_of(merged) : d >= e
         IN  {<<min_date, max_date>>, <<min_date, min_date>>, <<max_date, max_date>>, <<min_date>>}

date_range_step(merged, date_range) ==
    IF merged.none \/ "Created At" \notin merged.cols THEN merged
    ELSE IF HasUnparsableDate(merged) THEN merged
    ELSE IF days_of(merged) = {} \/ Len(date_range) # 2 THEN with_datetimes(merged)
    ELSE [with_datetimes(merged) EXCEPT !.rows =
             SelectSeq(@, LAMBDA r : /\ r["Created At"].t = "date"
                                     /\ day(r["Created At"]) >= date_range[1]
                                     /\ day(r["Created At"]) <= date_range[2])]

(***************************************************************************)
(* create_progress_kpis and create_kpi_cards: the calculators each calls,  *)
(* in the order of the calls, and the values they return.  Each value of   *)
(* create_progress_kpis is handed to create_progress_bar_html with its     *)
(* goal; a value that is no number makes it raise, and nothing catches it. *)
(***************************************************************************)
ProgressCalculators ==
    <<"calculate_avg_ticket", "calculate_job_close_rate", "calculate_weekly_revenue",
      "calculate_avg_job_efficiency", "calculate_compliance_rate",
      "calculate_membership_win_rate">>

ProgressGoals == <<2500, 80, 20000, 100, 100, 25>>

ProgressFormats == <<"currency", "percentage", "currency", "percentage", "percentage", "percentage">>

ProgressLabels == <<"Avg Ticket", "Job Close Rate", "Weekly Revenue", "Avg Job Eff",
                    "Compliance", "Membership Win Rate">>

create_progress_kpis(merged, technician, today) ==
    [i \in 1..6 |-> calculate(ProgressCalculators[i], merged, technician, today)]

progress_bars_raise(values) == \E i \in 1..6 : values[i].k = "str"

progress_bars(values) ==
    [i \in 1..6 |-> create_progress_bar_html(values[i], RNum(ProgressGoals[i], 1),
                                             ProgressLabels[i], ProgressFormats[i])]

CardCalculators ==
    <<"calculate_kpi_hydro_jetting", "calculate_on_time_arrival", "calculate_kpi_descaling",
      "calculate_five_star_reviews", "calculate_warranty_call_rate",
      "calculate_upsell_conversion">>

create_kpi_cards(merged, technician, today) ==
    [i \in 1..6 |-> calculate(CardCalculators[i], merged, technician, today)]

\* The rates are shown with one decimal, the counts as they are.
kpi_cards(values) ==
    [i \in 1..6 |-> IF i \in {2, 5, 6} THEN format_float(values[i], 1, FALSE) \o <<"%">>
                    ELSE Decimal(values[i].n)]

(***************************************************************************)
(* create_job_details_table: works on a copy of the unified table and      *)
(* shows its first 20 rows under display names, with a membership column.  *)
(* The technician filter is outside any try block.                         *)
(***************************************************************************)
col_mapping(c) ==
    CASE c = "Job" -> "Job"
      [] c = "Appt Status" -> "Won/Lost"
      [] c = "Customer Email" -> "Customer"
      [] c = "Phone" -> "Phone"
      [] c = "Revenue" -> "Revenue Credit"
      [] c = "Job Efficiency" -> "Efficiency"
      [] c = "Service Category" -> "Service"

has_membership(df, r) ==
    IF "Items_Sold" \in df.cols /\ notna(r["Items_Sold"])
    THEN contains(r["Items_Sold"], Membership)
    ELSE IF "Service Category" \in df.cols /\ notna(r["Service Category"])
    THEN contains(r["Service Category"], Membership)
    ELSE FALSE

create_job_details_table(merged, technician) ==
    IF merged.none THEN [raised |-> FALSE, shown |-> FALSE, columns |-> {}, membership_win |-> <<>>]
    ELSE LET f == filter_technician(merged, technician)
             mapped == {"Job", "Appt Status", "Customer Email", "Phone", "Revenue",
                        "Job Efficiency", "Service Category"}
         IN  IF f.raised
             THEN [raised |-> TRUE, shown |-> FALSE, columns |-> {}, membership_win |-> <<>>]
             ELSE [raised |-> FALSE, shown |-> TRUE,
                   columns |-> {col_mapping(c) : c \in f.df.cols \cap mapped}
                               \cup (IF {"Items_Sold", "Service Category"} \cap f.df.cols # {}
                                     THEN {"Membership Win"} ELSE {}),
                   membership_win |->
                       IF {"Items_Sold", "Service Category"} \cap f.df.cols # {}
                       THEN [i \in 1..Len(f.df.rows) |-> has_membership(f.df, f.df.rows[i])]
                       ELSE <<>>]

(***************************************************************************)
(* create_charts (the second definition of the class, lines 734-777, is    *)
(* the one in force).  The revenue of each technician is summed outside    *)
(* any try block; the jobs-over-time chart assigns the parsed dates to     *)
(* self.merged_df['Created At'] inside one.                                *)
(***************************************************************************)
create_charts(merged) ==
    IF merged.none THEN [raised |-> FALSE, merged_df |-> merged]
    ELSE LET techs == IF "Technician" \in merged.cols
                      THEN {merged.rows[i]["Technician"] : i \in 1..Len(merged.rows)} \ {NaN}
                      ELSE {}
             revenue_of(t) ==
                 series_sum(column(SelectSeq(merged.rows, LAMBDA r : r["Technician"] = t), "Revenue"))
         IN  IF "Revenue" \in merged.cols /\ \E t \in techs : revenue_of(t).raised
             THEN [raised |-> TRUE, merged_df |-> merged]
             ELSE [raised |-> FALSE,
                   merged_df |-> IF "Created At" \in merged.cols /\ ~ HasUnparsableDate(merged)
                                 THEN with_datetimes(merged)
                                 ELSE merged]

\* The data summary of main (lines 846-867): the total revenue is formatted
\* as a number, outside any try block.
summary_raises(merged) ==
    \/ merged.none
    \/ /\ "Revenue" \in merged.cols
       /\ \/ series_sum(column(merged.rows, "Revenue")).raised
          \/ series_sum(column(merged.rows, "Revenue")).value.k = "str"

(***************************************************************************)
(* main.  One run of the script: a new dashboard, the uploaded files, and  *)
(* then, nested under the tests of the file and of the values load_data    *)
(* and merge_data return, the filters and the sections of the page.  An    *)
(* exception that nothing catches ends the run.                            *)
(***************************************************************************)
called(op, ok) == [op |-> op, ok |-> ok]

calls_of(names) == [i \in 1..Len(names) |-> called(names[i], TRUE)]

\* `if appointments_file:` (line 792) and its else (line 919)
after_upload(appointments_file) == IF appointments_file.kind # "none" THEN "load_data" ELSE "info"

\* `if dashboard.load_data(...):` (line 794) and its else (line 917)
after_load_data(ok) == IF ok THEN "merge_data" ELSE "load_failed"

\* main with the value merge_data returns ignored: the page is built
\* whether the merge succeeded or not.
after_merge_data_unchecked(ok) == "filters"

\* `if dashboard.merge_data():` (line 795) and its else (line 915)
after_merge_data(ok) == IF ok THEN "filters" ELSE "merge_failed"

\* The position of a run at its first line: nothing called, nothing rendered.
MainStart ==
    [at |-> "start", selected_technician |-> Str(<<"A", "l", "l">>), calls |-> <<>>,
     bars |-> <<>>, cards |-> <<>>]

\* The value of load_data called by main on the new dashboard.
main_load(a, it, o, j) ==
    load_data_result(<<a, it, o, j>>,
                     <<appointments_df, items_sold_df, opportunities_df, job_times_df>>)

main_load_data ==
    /\ pc.at = "start"
    /\ \E a \in MainAppointmentFiles, it \in MainItemsFiles,
          o \in OpportunityFiles, j \in MainJobTimeFiles :
          IF after_upload(a) = "info"
          THEN /\ pc' = [pc EXCEPT !.at = "info"]
               /\ last' = [op |-> "main", shown |-> "Please upload at least the Appointments Report"]
               /\ UNCHANGED <<appointments_df, items_sold_df, opportunities_df,
                              job_times_df, merged_df, now>>
          ELSE /\ appointments_df' = main_load(a, it, o, j).tables[1]
               /\ items_sold_df' = main_load(a, it, o, j).tables[2]
               /\ opportunities_df' = main_load(a, it, o, j).tables[3]
               /\ job_times_df' = main_load(a, it, o, j).tables[4]
               /\ last' = [op |-> "load_data", ok |-> main_load(a, it, o, j).ok,
                           error |-> main_load(a, it, o, j).error,
                           files |-> <<a.kind, it.kind, o.kind, j.kind>>]
               /\ pc' = [pc EXCEPT !.at = after_load_data(main_load(a, it, o, j).ok),
                                   !.calls = Append(@, called("load_data", main_load(a, it, o, j).ok))]
               /\ UNCHANGED <<merged_df, now>>

main_merge_data ==
    /\ pc.at = "merge_data"
    /\ merged_df' = merge_data_result(appointments_df, items_sold_df, opportunities_df,
                                      job_times_df, merged_df).merged_df
    /\ last' = [merge_data_result(appointments_df, items_sold_df, opportunities_df,
                                  job_times_df, merged_df) EXCEPT !.merged_df = merged_df]
    /\ pc' = [pc EXCEPT !.at = after_merge_data(last'.ok),
                        !.calls = Append(@, called("merge_data", last'.ok))]
    /\ UNCHANGED <<appointments_df, items_sold_df, opportunities_df, job_times_df, now>>

\* lines 799-823: the technician select box and the date-range step
main_filters ==
    /\ pc.at = "filters"
    /\ \E k \in 1..Len(get_technicians(merged_df)), date_range \in date_ranges(merged_df) :
          /\ merged_df' = date_range_step(merged_df, date_range)
          /\ last' = [op |-> "filters", technicians |-> get_technicians(merged_df),
                      date_range |-> date_range, merged_df |-> merged_df]
          /\ pc' = [pc EXCEPT !.at = "create_progress_kpis",
                              !.selected_technician = get_technicians(merged_df)[k],
                              !.calls = Append(@, called("get_technicians", TRUE))]
    /\ UNCHANGED <<appointments_df, items_sold_df, opportunities_df, job_times_df, now>>

main_progress_kpis ==
    /\ pc.at = "create_progress_kpis"
    /\ last' = [op |-> "create_progress_kpis", technician |-> pc.selected_technician,
                values |-> create_progress_kpis(merged_df, pc.selected_technician, now)]
    /\ pc' = [pc EXCEPT !.at = IF progress_bars_raise(last'.values)
                               THEN "crashed" ELSE "create_kpi_cards",
                        !.calls = @ \o calls_of(ProgressCalculators),
                        !.bars = IF progress_bars_raise(last'.values)
                                 THEN <<>> ELSE progress_bars(last'.values)]
    /\ UNCHANGED <<appointments_df, items_sold_df, opportunities_df,
                   job_times_df, merged_df, now>>

main_kpi_cards ==
    /\ pc.at = "create_kpi_cards"
    /\ last' = [op |-> "create_kpi_cards", technician |-> pc.selected_technician,
                values |-> create_kpi_cards(merged_df, pc.selected_technician, now)]
    /\ pc' = [pc EXCEPT !.at = "create_job_details_table",
                        !.calls = @ \o calls_of(CardCalculators),
                        !.cards = kpi_cards(last'.values)]
    /\ UNCHANGED <<appointments_df, items_sold_df, opportunities_df,
                   job_times_df, merged_df, now>>

main_job_details_table ==
    /\ pc.at = "create_job_details_table"
    /\ last' = [op |-> "create_job_details_table", technician |-> pc.selected_technician,
                table |-> create_job_details_table(merged_df, pc.selected_technician)]
    /\ pc' = [pc EXCEPT !.at = IF last'.table.raised THEN "crashed" ELSE "create_charts"]
    /\ UNCHANGED <<appointments_df, items_sold_df, opportunities_df,
                   job_times_df, merged_df, now>>

main_charts ==
    /\ pc.at = "create_charts"
    /\ merged_df' = create_charts(merged_df).merged_df
    /\ last' = [op |-> "create_charts", raised |-> create_charts(merged_df).raised,
                merged_df |-> merged_df]
    /\ pc' = [pc EXCEPT !.at = IF last'.raised THEN "crashed" ELSE "summary"]
    /\ UNCHANGED <<appointments_df, items_sold_df, opportunities_df, job_times_df, now>>

main_summary ==
    /\ pc.at = "summary"
    /\ last' = [op |-> "summary", raised |-> summary_raises(merged_df)]
    /\ pc' = [pc EXCEPT !.at = IF summary_raises(merged_df) THEN "crashed" ELSE "export"]
    /\ UNCHANGED <<appointments_df, items_sold_df, opportunities_df,
                   job_times_df, merged_df, now>>

\* lines 874-905: the export button, which calls the six progress
\* calculators again when it is pressed
main_export ==
    /\ pc.at = "export"
    /\ \E pressed \in BOOLEAN :
          /\ last' = [op |-> "export", pressed |-> pressed,
                      values |-> IF pressed
                                 THEN create_progress_kpis(merged_df, pc.selected_technician, now)
                                 ELSE <<>>]
          /\ pc' = [pc EXCEPT !.at = "done",
                              !.calls = IF pressed THEN @ \o calls_of(ProgressCalculators) ELSE @]
    /\ UNCHANGED <<appointments_df, items_sold_df, opportunities_df,
                   job_times_df, merged_df, now>>

\* The script is run again from its first line, with a new dashboard.
main_rerun ==
    /\ pc.at \in {"info", "load_failed", "merge_failed", "crashed", "done"}
    /\ appointments_df' = NoneDF
    /\ items_sold_df' = NoneDF
    /\ opportunities_df' = NoneDF
    /\ job_times_df' = NoneDF
    /\ merged_df' = NoneDF
    /\ last' = [op |-> "__init__"]
    /\ pc' = MainStart
    /\ UNCHANGED now

MainInit ==
    /\ appointments_df = NoneDF
    /\ items_sold_df = NoneDF
    /\ opportunities_df = NoneDF
    /\ job_times_df = NoneDF
    /\ merged_df = NoneDF
    /\ now = 480014
    /\ last = [op |-> "__init__"]
    /\ pc = MainStart

MainNext ==
    \/ main_load_data \/ main_merge_data \/ main_filters \/ main_progress_kpis
    \/ main_kpi_cards \/ main_job_details_table \/ main_charts \/ main_summary
    \/ main_export \/ main_rerun

SpecMain == MainInit /\ [][MainNext]_vars

(***************************************************************************)
(* Properties of merge_data.                                               *)
(***************************************************************************)
Merged == last.op = "merge_data" /\ last.ok

NoRows(df) == df.none \/ df.rows = <<>>

\* C1: the unified table produced by merge_data has exactly as many records
\* as the appointments table, whatever the optional tables hold.
C1_UnifiedLenEqualsBaseLen ==
    Merged => Len(merged_df.rows) = Len(appointments_df.rows)

\* C2: whenever the appointments table is present, merge_data reports
\* success and installs a unified table; an optional source that cannot be
\* joined or aggregated is skipped.
C2_MergeSucceedsWhenBasePresent ==
    (last.op = "merge_data" /\ ~ appointments_df.none)
        => (last.ok /\ ~ merged_df.none)

\* The key the specification prescribes for a source: Job when both sides
\* have it, otherwise Job ID when both sides have it, otherwise none.
FirstSharedKey(mergedSoFar, source) ==
    IF "Job" \in mergedSoFar.cols /\ "Job" \in source.cols THEN <<"Job">>
    ELSE IF "Job ID" \in mergedSoFar.cols /\ "Job ID" \in source.cols THEN <<"Job ID">>
    ELSE <<>>

JoinedOn(before, source, key, suffix, after) ==
    IF key = <<>> THEN after = before
    ELSE after = pd_merge(before, source, key[1], "", suffix).df

\* C4: job times and opportunities are each joined on Job when the table
\* merged so far and the source both have it, otherwise on Job ID when both
\* have it, and are otherwise left un-joined.
C4_FirstSharedKeyIsUsed ==
    Merged =>
        /\ ~ job_times_df.none =>
              /\ last.steps.job_merge_cols = FirstSharedKey(appointments_df, job_times_df)
              /\ JoinedOn(appointments_df, job_times_df,
                          FirstSharedKey(appointments_df, job_times_df), "_job",
                          last.steps.before_opp)
        /\ ~ opportunities_df.none =>
              /\ last.steps.opp_merge_cols = FirstSharedKey(last.steps.before_opp, opportunities_df)
              /\ JoinedOn(last.steps.before_opp, opportunities_df,
                          FirstSharedKey(last.steps.before_opp, opportunities_df), "_opp",
                          last.steps.before_items)

\* The rows of the items table that belong to customer k, by index.
RowsOf(k) == {i \in 1..Len(items_sold_df.rows) : items_sold_df.rows[i]["Customer Email"] = k}

Customers == {items_sold_df.rows[i]["Customer Email"] : i \in 1..Len(items_sold_df.rows)} \ {NaN}

RECURSIVE TotalOf(_, _)
TotalOf(I, c) ==
    IF I = {} THEN 0
    ELSE LET i == CHOOSE x \in I : TRUE
             x == items_sold_df.rows[i][c]
         IN  (IF x = NaN THEN 0 ELSE x.v) + TotalOf(I \ {i}, c)

\* L lists the labels of customer k, each once, in order of first appearance.
FirstAppearances(k, L) ==
    /\ {L[n] : n \in 1..Len(L)} = {items_sold_df.rows[i]["Line Item"].v : i \in RowsOf(k)}
    /\ \A m, n \in 1..Len(L) : m < n =>
          \E i \in RowsOf(k) :
              /\ items_sold_df.rows[i]["Line Item"].v = L[m]
              /\ \A j \in RowsOf(k) : items_sold_df.rows[j]["Line Item"].v = L[n] => i < j

RECURSIVE CommaJoined(_)
CommaJoined(L) ==
    IF Len(L) = 0 THEN <<>>
    ELSE IF Len(L) = 1 THEN L[1]
    ELSE CommaJoined(SubSeq(L, 1, Len(L) - 1)) \o <<",", " ">> \o L[Len(L)]

Aggregated == last.op = "merge_data" /\ ~ appointments_df.none /\ ~ last.steps.items_agg.none

\* C5: the items-sold aggregation yields at most one row per customer; the
\* row of a customer holds the sum of the customer's prices, the sum of the
\* customer's quantities and the customer's distinct line items, each once,
\* in order of first appearance, joined by ", ".
C5_ItemsAggregation ==
    Aggregated =>
        LET agg == last.steps.items_agg.rows
        IN  /\ \A i, j \in 1..Len(agg) :
                  agg[i]["Customer Email"] = agg[j]["Customer Email"] => i = j
            /\ \A k \in Customers :
                  \E i \in 1..Len(agg) :
                      /\ agg[i]["Customer Email"] = k
                      /\ agg[i]["Total_Items_Price"] = Num(TotalOf(RowsOf(k), "Price"))
                      /\ agg[i]["Total_Items_Qty"] = Num(TotalOf(RowsOf(k), "Quantity"))
                      /\ \E L \in SeqsUpTo({<<"A">>, <<"B">>}, 2) :
                            /\ FirstAppearances(k, L)
                            /\ agg[i]["Items_Sold"] = Str(CommaJoined(L))
            /\ items_sold_df.rows = Table(ItemsFull, <<1, 2>>, ItemCell).rows =>
                  agg = <<[c \in {"Customer Email", "Total_Items_Price", "Total_Items_Qty", "Items_Sold"} |->
                            CASE c = "Customer Email" -> Str(Email(1))
                              [] c = "Total_Items_Price" -> Num(30)
                              [] c = "Total_Items_Qty" -> Num(3)
                              [] c = "Items_Sold" -> Str(<<"A", ",", " ", "B">>)]>>

\* A customer with a repeated label (A, B, A) was aggregated.
C5_Witness ==
    /\ Aggregated
    /\ ~ last.steps.raised
    /\ \E i, j \in RowsOf(Str(Email(1))) :
          /\ i + 1 < j
          /\ items_sold_df.rows[i]["Line Item"] = items_sold_df.rows[j]["Line Item"]
    /\ \E i \in 1..Len(last.steps.items_agg.rows) :
          last.steps.items_agg.rows[i]["Items_Sold"] = Str(<<"A", ",", " ", "B">>)

\* Every column of `before` is still a column of `after`, every row of
\* `after` restricted to those columns is a row of `before`, and a source
\* column that collides appears under a new name.
KeepsColumns(before, source, key, after) ==
    /\ before.cols \subseteq after.cols
    /\ \A i \in 1..Len(after.rows) :
          \E j \in 1..Len(before.rows) :
              \A c \in before.cols : after.rows[i][c] = before.rows[j][c]
    /\ \A c \in (source.cols \ {key}) \cap before.cols :
          \E d \in after.cols \ before.cols : TRUE

\* C6: when a joined source has a non-key column whose name already exists
\* in the table merged so far, the existing column keeps its name and its
\* values and the source's column appears under a suffixed name.
C6_CollidingColumnsAreSuffixed ==
    Merged =>
        /\ last.steps.job_merge_cols # <<>> =>
              KeepsColumns(appointments_df, job_times_df,
                           last.steps.job_merge_cols[1], last.steps.before_opp)
        /\ last.steps.opp_merge_cols # <<>> =>
              KeepsColumns(last.steps.before_opp, opportunities_df,
                           last.steps.opp_merge_cols[1], last.steps.before_items)
        /\ ~ last.steps.items_agg.none =>
              KeepsColumns(last.steps.before_items, last.steps.items_agg,
                           "Customer Email", merged_df)

\* C7: when every optional source is absent or has no rows, merge_data
\* returns the appointments records in order with their values unchanged and
\* every other column missing in every record.
C7_EmptySourcesGiveBaseRecords ==
    (/\ last.op = "merge_data"
     /\ ~ appointments_df.none
     /\ NoRows(job_times_df) /\ NoRows(opportunities_df) /\ NoRows(items_sold_df))
        => /\ last.ok
           /\ Len(merged_df.rows) = Len(appointments_df.rows)
           /\ appointments_df.cols \subseteq merged_df.cols
           /\ \A i \in 1..Len(merged_df.rows) :
                 /\ \A c \in appointments_df.cols :
                       merged_df.rows[i][c] = appointments_df.rows[i][c]
                 /\ \A c \in merged_df.cols \ appointments_df.cols :
                       merged_df.rows[i][c] = NaN

\* C3: merge_data called while no appointments table is loaded fails with
\* the missing-base error ("No appointments data found") reported to the
\* caller and leaves the unified table as it was before the call.
C3_MissingBaseFailsAndKeepsUnified ==
    (last.op = "merge_data" /\ appointments_df.none)
        => /\ last.ok = FALSE
           /\ last.error = "No appointments data found"
           /\ merged_df = last.merged_df

\* merge_data failed for want of an appointments table although optional
\* tables were loaded.
C3_Witness ==
    /\ last.op = "merge_data"
    /\ appointments_df.none
    /\ ~ items_sold_df.none
    /\ ~ last.ok
    /\ merged_df.none

(***************************************************************************)
(* Properties of the calculators.                                          *)
(***************************************************************************)
Calculated == last.op \in Calculators

\* C8: every calculator, in any dashboard state and with any actor, returns
\* a number (an int or a float) and does not raise; when the unified table
\* is absent it returns 0.
C8_CalculatorsReturnNumbers ==
    Calculated =>
        /\ last.value.k \in {"num", "nan"}
        /\ merged_df.none => last.value = Zero

\* C9: when the unified table has no Technician column, a calculator called
\* with a specific actor returns what it returns when called with no actor
\* and with 'All'.
C9_FilterIsNoOpWithoutActorColumn ==
    (Calculated /\ ~ merged_df.none /\ "Technician" \notin merged_df.cols)
        => /\ last.value = calculate(last.op, merged_df, PyNone, now)
           /\ last.value = calculate(last.op, merged_df, Str(<<"A", "l", "l">>), now)

\* The actor is a specific name, and no record of the unified table has it.
UnknownActor ==
    /\ ~ merged_df.none
    /\ merged_df.rows # <<>>
    /\ "Technician" \in merged_df.cols
    /\ last.technician.t = "str"
    /\ last.technician.v \notin {<<>>, <<"A", "l", "l">>}
    /\ \A i \in 1..Len(merged_df.rows) : merged_df.rows[i]["Technician"] # last.technician

\* C10: on a non-empty unified table that has an actor column, a calculator
\* called with an actor name that occurs in no record returns 0.
C10_UnknownActorGivesZero ==
    (Calculated /\ UnknownActor) => last.value = Zero

\* The compliance rate was asked for an unknown actor on a table without
\* efficiency column that holds a completed job: without the filter the
\* rate is the default 95.
C10_Witness ==
    /\ last.op = "calculate_compliance_rate"
    /\ UnknownActor
    /\ "Job Efficiency" \notin merged_df.cols
    /\ calculate_compliance_rate(merged_df, PyNone) = RNum(95, 1)
    /\ last.value = Zero

\* The actor filter of the last call selects records without failing: no
\* specific actor is named, or the unified table has an actor column.
FilterApplies ==
    /\ Calculated
    /\ ~ merged_df.none
    /\ ~ filter_technician(merged_df, last.technician).raised

\* The records the last call was asked about.
ActorRecords == filter_technician(merged_df, last.technician).df.rows

\* C11: on a unified table without efficiency column the compliance rate is
\* the default 95 and not 0, for every actor, also when the table has no
\* record or no completed record.
C11_DefaultWithoutEfficiencyColumn ==
    (/\ last.op = "calculate_compliance_rate"
     /\ FilterApplies
     /\ "Appt Status" \in merged_df.cols
     /\ "Job Efficiency" \notin merged_df.cols)
        => last.value = RNum(95, 1)

\* The shared normalization rule of the specification: strip a trailing
\* percent sign if present and parse the remainder as a floating-point
\* number; a number is itself; anything else does not parse.
strip_trailing_percent(s) ==
    IF s # <<>> /\ s[Len(s)] = "%" THEN SubSeq(s, 1, Len(s) - 1) ELSE s

Normalized(val) ==
    IF val.t = "str" THEN float(strip(strip_trailing_percent(strip(val.v))))
    ELSE IF val.t = "num" THEN [ok |-> TRUE, n |-> val.v, d |-> 1]
    ELSE [ok |-> FALSE, n |-> 0, d |-> 1]

Parses(s) == SelectSeq(s, LAMBDA val : Normalized(val).ok)

AtLeast(s, threshold) ==
    SelectSeq(Parses(s), LAMBDA val :
        RatGeq(Normalized(val).n, Normalized(val).d, threshold, 1))

CompletedRecords == SelectSeq(ActorRecords, LAMBDA r : r["Appt Status"] = Completed)

\* C12: with an efficiency column, the compliance rate is 100 times the
\* number of completed records whose normalized efficiency is at least 80,
\* divided by the number of completed records whose efficiency parses.
C12_ComplianceOverParsedRecords ==
    (/\ last.op = "calculate_compliance_rate"
     /\ FilterApplies
     /\ {"Appt Status", "Job Efficiency"} \subseteq merged_df.cols
     /\ Parses(column(CompletedRecords, "Job Efficiency")) # <<>>)
        => last.value =
              RNum(100 * Len(AtLeast(column(CompletedRecords, "Job Efficiency"), 80)),
                   Len(Parses(column(CompletedRecords, "Job Efficiency"))))

\* Every text column the keyword calculators read holds text (the .str
\* accessor applies to it).
TextColumnsReadable ==
    \A c \in {"Items_Sold", "Service Category"} \cap merged_df.cols :
        str_accessor_ok(filter_technician(merged_df, last.technician).df, c)

\* A record counts for a keyword set when the text of the given column
\* contains one of the keywords, in any letter case.
Mentions(r, c, pats) == c \in merged_df.cols /\ contains(r[c], pats)

\* C14: the membership win rate is the share of the actor's records whose
\* aggregated items text or whose service category contains "membership".
C14_MembershipInItemsOrCategory ==
    (/\ last.op = "calculate_membership_win_rate"
     /\ FilterApplies
     /\ TextColumnsReadable
     /\ ActorRecords # <<>>)
        => last.value =
              RNum(100 * Len(SelectSeq(ActorRecords, LAMBDA r :
                                \/ Mentions(r, "Items_Sold", Membership)
                                \/ Mentions(r, "Service Category", Membership))),
                   Len(ActorRecords))

HydroKeywords == {<<"j", "e", "t", "t", "i", "n", "g">>, <<"h", "y", "d", "r", "o">>}

DescalKeywords == {<<"d", "e", "s", "c", "a", "l">>}

KeywordEvidence(pats) ==
    Len(SelectSeq(ActorRecords, LAMBDA r : Mentions(r, "Service Category", pats)))
    + Len(SelectSeq(ActorRecords, LAMBDA r : Mentions(r, "Items_Sold", pats)))

\* C15: hydro jetting sold counts the actor's records whose service category
\* contains "jetting" or "hydro" plus those whose items text does; descaling
\* sold does the same for "descal".
C15_KeywordCounts ==
    (FilterApplies /\ TextColumnsReadable) =>
        /\ last.op = "calculate_kpi_hydro_jetting"
              => last.value = RNum(KeywordEvidence(HydroKeywords), 1)
        /\ last.op = "calculate_kpi_descaling"
              => last.value = RNum(KeywordEvidence(DescalKeywords), 1)

\* The records created within the trailing 7 days (168 hours) of the
\* evaluation time: not before now - 168 and not after now.
TrailingWeek ==
    SelectSeq(ActorRecords, LAMBDA r :
        /\ to_datetime(r["Created At"]).t = "date"
        /\ to_datetime(r["Created At"]).v >= now - 168
        /\ to_datetime(r["Created At"]).v <= now)

\* C17: the weekly revenue is the sum of the revenue of the actor's records
\* created within the trailing 7 days; records whose date does not parse
\* are left out.
C17_WeeklyRevenueWithinTrailingWeek ==
    (/\ last.op = "calculate_weekly_revenue"
     /\ FilterApplies
     /\ {"Revenue", "Created At"} \subseteq merged_df.cols
     /\ ~ HasText(column(ActorRecords, "Revenue")))
        => last.value = RNum(sum(column(TrailingWeek, "Revenue")), 1)

EfficiencyOfActor == Parses(column(ActorRecords, "Job Efficiency"))

\* The mean of the normalized values of s, as a return value.
MeanOf(s) ==
    LET total == fraction_sum([i \in 1..Len(s) |-> Normalized(s[i])])
    IN  RNum(total.n, total.d * Len(s))

\* C13: the average job efficiency is the mean of those efficiency values
\* of the actor's records that parse under the shared rule (a number, or a
\* string that is a number once a trailing percent sign is stripped), and 0
\* when none parses; 85, "90%" and "not-a-number" give 87.5.
C13_MeanOfParsedEfficiencies ==
    (/\ last.op = "calculate_avg_job_efficiency"
     /\ FilterApplies
     /\ "Job Efficiency" \in merged_df.cols)
        => last.value = (IF EfficiencyOfActor = <<>> THEN Zero ELSE MeanOf(EfficiencyOfActor))

PercentageKPIs == {"calculate_job_close_rate", "calculate_avg_job_efficiency",
                   "calculate_compliance_rate", "calculate_membership_win_rate",
                   "calculate_on_time_arrival", "calculate_warranty_call_rate",
                   "calculate_upsell_conversion"}

\* C18: every percentage-valued KPI lies in the closed range from 0 to 100,
\* for every unified table and every actor.
C18_PercentagesWithinRange ==
    last.op \in PercentageKPIs =>
        /\ last.value.k = "num"
        /\ last.value.n >= 0
        /\ last.value.n <= 100 * last.value.d

(***************************************************************************)
(* Properties of create_progress_bar_html.                                 *)
(***************************************************************************)
Rendered == last.op = "create_progress_bar_html"

\* value / goal * 100 >= threshold, for numbers and goal # 0, by cross
\* multiplication.
Reaches(value, goal, threshold) ==
    IF goal.n > 0
    THEN 100 * value.n * goal.d >= threshold * value.d * goal.n
    ELSE 100 * value.n * goal.d <= threshold * value.d * goal.n

\* The tier the specification prescribes: the first limit reached, in
\* descending order; none is reached when the goal is 0 or the value is nan.
TierOf(value, goal) ==
    IF value.k # "num" \/ goal.n = 0 THEN "off"
    ELSE IF Reaches(value, goal, 100) THEN "on"
    ELSE IF Reaches(value, goal, 80) THEN "near"
    ELSE IF Reaches(value, goal, 60) THEN "below"
    ELSE "off"

ColorOf(tier) ==
    CASE tier = "on" -> "#4CAF50"
      [] tier = "near" -> "#2196F3"
      [] tier = "below" -> "#FF9800"
      [] tier = "off" -> "#F44336"

\* C16: the progress is 0 when the goal is 0 and min(value / goal * 100, 100)
\* otherwise; the tier is the first of >= 100 (green), >= 80 (blue), >= 60
\* (orange), else red; the format kind changes the rendered strings only;
\* value 82 with goal 80 as a percentage is on target and reads "82.0%".
C16_ProgressAndTier ==
    Rendered =>
        /\ last.goal.n = 0 => last.html.progress_percent = Zero
        /\ (last.value.k = "num" /\ last.goal.n # 0) =>
              IF Reaches(last.value, last.goal, 100)
              THEN last.html.progress_percent = RNum(100, 1)
              ELSE /\ last.html.progress_percent.k = "num"
                   /\ last.html.progress_percent.n * last.value.d * last.goal.n
                         = 100 * last.value.n * last.goal.d * last.html.progress_percent.d
        /\ last.html.icon = TierOf(last.value, last.goal)
        /\ last.html.color = ColorOf(TierOf(last.value, last.goal))
        /\ \A f \in FormatTypes :
              LET other == create_progress_bar_html(last.value, last.goal, "KPI", f)
              IN  /\ other.icon = last.html.icon
                  /\ other.color = last.html.color
                  /\ other.progress_percent = last.html.progress_percent
        /\ (last.value = RNum(82, 1) /\ last.goal = RNum(80, 1) /\ last.format_type = "percentage") =>
              /\ last.html.icon = "on"
              /\ last.html.value_str = <<"8", "2", ".", "0", "%">>

\* Value 82 with goal 80 was rendered as a percentage: the progress 102.5
\* is clamped to 100.
C16_Witness ==
    /\ Rendered
    /\ last.value = RNum(82, 1)
    /\ last.goal = RNum(80, 1)
    /\ last.format_type = "percentage"
    /\ last.html.progress_percent = RNum(100, 1)
    /\ last.html.color = "#4CAF50"
    /\ last.html.value_str = <<"8", "2", ".", "0", "%">>

(***************************************************************************)
(* Properties of the sequence of load_data and merge_data calls.           *)
(***************************************************************************)
\* The table of a source as the most recent load_data call supplied it:
\* the table, when the call was given a file for it, and none otherwise.
SuppliedBy(call, i, df) == IF call.files[i] = "xlsx" THEN df ELSE NoneDF

\* C19: the unified table installed by a successful merge_data is built
\* only from the tables supplied to the most recent load_data call; an
\* optional source given to an earlier call but omitted from that one
\* contributes no column and no value.
C19_RebuiltFromLatestLoadOnly ==
    [][(/\ last.op = "load_data"
        /\ last.ok
        /\ last.files[1] = "xlsx"
        /\ last'.op = "merge_data"
        /\ last'.ok)
          => merged_df' = merge_data_result(appointments_df,
                                            SuppliedBy(last, 2, items_sold_df),
                                            SuppliedBy(last, 3, opportunities_df),
                                            SuppliedBy(last, 4, job_times_df),
                                            merged_df).merged_df]_vars

(***************************************************************************)
(* Properties of main.                                                     *)
(***************************************************************************)
IsCalculator(op) ==
    \/ \E i \in 1..Len(ProgressCalculators) : ProgressCalculators[i] = op
    \/ \E i \in 1..Len(CardCalculators) : CardCalculators[i] = op

CalculatorInvoked == \E k \in 1..Len(pc.calls) : IsCalculator(pc.calls[k].op)

\* C20: in every run of main a KPI calculator is invoked only after
\* load_data and then merge_data have both returned success earlier in the
\* run; a run with no appointments file, or in which load_data or merge_data
\* reports failure, invokes no calculator.
C20_CalculatorsOnlyAfterLoadAndMerge ==
    /\ \A k \in 1..Len(pc.calls) :
          IsCalculator(pc.calls[k].op) =>
              \E i \in 1..(k - 1), j \in 1..(k - 1) :
                  /\ i < j
                  /\ pc.calls[i] = called("load_data", TRUE)
                  /\ pc.calls[j] = called("merge_data", TRUE)
    /\ (\E k \in 1..Len(pc.calls) : ~ pc.calls[k].ok) => ~ CalculatorInvoked
    /\ pc.at \in {"info", "load_failed", "merge_failed"} => ~ CalculatorInvoked
    /\ pc.at = "info" => pc.calls = <<>>

\* A run that loaded and merged with success has called the six progress
\* calculators and is about to render the cards.
C20_Witness ==
    /\ pc.at = "create_kpi_cards"
    /\ Len(pc.calls) = 9
    /\ pc.calls[1] = called("load_data", TRUE)
    /\ pc.calls[2] = called("merge_data", TRUE)
    /\ \A k \in 4..9 : IsCalculator(pc.calls[k].op)

\* The positions of a run of main after merge_data has installed the unified
\* table: the filters, the sections of the page, the summary and the export.
AfterMerge ==
    pc.at \in {"filters", "create_progress_kpis", "create_kpi_cards",
               "create_job_details_table", "create_charts", "summary", "export"}

\* C21: once merge_data has installed the unified table, no later step of
\* the run (the date-range step of main, the calculators,
\* create_job_details_table, create_charts) changes merged_df or any of the
\* four raw tables.
C21_UnifiedTableReadOnlyAfterMerge ==
    [][AfterMerge => UNCHANGED <<merged_df, appointments_df, items_sold_df,
                                 opportunities_df, job_times_df>>]_vars

====
